---- MODULE Spec2Model ----
(***************************************************************************)
(* Model of package graw (src/graw.go): the Style attribute codec          *)
(* (MarshalXMLAttr / UnmarshalXMLAttr), the GraphModel document with its   *)
(* append-only cell sequence (NewGraph, Add) and the cell constructors     *)
(* (NewShape, NewImage, NewImageXY).                                       *)
(*                                                                         *)
(* Codec strings are sequences of one-character strings, so that           *)
(* splitting and concatenation are computed, not assumed.  Go maps and     *)
(* pointers are modelled by a heap: a Cell holds the address of its map    *)
(* and of its Geometry, and copying a Cell copies the addresses.           *)
(***************************************************************************)
EXTENDS Integers, Sequences, FiniteSets, TLC

VARIABLES
    phase,      \* codec: "idle" | "encoded" | "roundtrip" | "decoded"
    style,      \* codec: Attributes of the Style value being marshalled
    order,      \* codec: the order in which range visited the entries
    attr,       \* codec: the xml.Attr returned by MarshalXMLAttr (or NoAttr)
    merr,       \* codec: the error returned by MarshalXMLAttr
    src,        \* codec: the attr.Value handed to UnmarshalXMLAttr
    recv,       \* codec: Attributes of the receiver of UnmarshalXMLAttr
    uerr,       \* codec: the error returned by UnmarshalXMLAttr
    maps,       \* heap of Go maps (address = index), address 0 is nil
    geoms,      \* heap of Geometry objects (address = index), 0 is nil
    cells,      \* heap of the caller's *Cell objects (address = index)
    g,          \* the GraphModel
    ret,        \* what the last Add returned
    nAdd,       \* number of Add calls so far
    last        \* the last operation with its arguments and what it touched

codecVars == <<phase, style, order, attr, merr, src, recv, uerr>>
graphVars == <<maps, geoms, cells, g, ret, nAdd, last>>
vars == <<phase, style, order, attr, merr, src, recv, uerr,
          maps, geoms, cells, g, ret, nAdd, last>>

----------------------------------------------------------------------------
(* Bounds *)

MaxInputLen == 6    \* longest attribute string handed to UnmarshalXMLAttr
MaxKeyLen == 1      \* longest key of a mapping to marshal
MaxEntries == 2     \* most entries of a mapping to marshal

\* the characters of codec strings: a plain one and the two delimiters
Alphabet == {"a", ";", "="}

Strs(n) == UNION {[1..k -> Alphabet] : k \in 0..n}

\* the values of a mapping to marshal: empty, plain, each delimiter
ValueStrs == {<<>>, <<"a">>, <<";">>, <<"=">>}

NoErr == "nil"
NoAttr == [Name |-> "", Value |-> <<>>, set |-> FALSE]
EmptyMap == [k \in {} |-> <<>>]

----------------------------------------------------------------------------
(* Go maps as functions *)

\* m[k] = v of a Go map
MapSet(m, k, v) == [x \in (DOMAIN m) \cup {k} |-> IF x = k THEN v ELSE m[x]]

----------------------------------------------------------------------------
(* Style.MarshalXMLAttr, src/graw.go:94-109 *)

\* as MarshalStep, but writing '=' before an empty value too
MarshalStepAlwaysEq(text, k, v) == text \o k \o <<"=">> \o v \o <<";">>

\* one iteration of the range loop (lines 98-105)
MarshalStep(text, k, v) ==
    LET t1 == text \o k
        t2 == IF v # <<>> THEN (t1 \o <<"=">>) \o v ELSE t1
    IN  t2 \o <<";">>

RECURSIVE MarshalLoop(_, _, _, _)
MarshalLoop(m, ord, i, text) ==
    IF i > Len(ord) THEN text
    ELSE MarshalLoop(m, ord, i + 1, MarshalStep(text, ord[i], m[ord[i]]))

\* the returned (xml.Attr, error); ord is the iteration order of the map
MarshalXMLAttr(m, ord) ==
    [attr |-> [Name |-> "style", Value |-> MarshalLoop(m, ord, 1, <<>>), set |-> TRUE],
     err |-> NoErr]

\* the orders in which range may visit the entries of m
IterOrders(m) ==
    {o \in [1..Cardinality(DOMAIN m) -> DOMAIN m] :
        \A i, j \in DOMAIN o : i # j => o[i] # o[j]}

----------------------------------------------------------------------------
(* strings.Split with a one-character separator *)

RECURSIVE SplitFrom(_, _, _, _)
SplitFrom(s, sep, i, cur) ==
    IF i > Len(s) THEN <<cur>>
    ELSE IF s[i] = sep THEN <<cur>> \o SplitFrom(s, sep, i + 1, <<>>)
    ELSE SplitFrom(s, sep, i + 1, Append(cur, s[i]))

Split(s, sep) == SplitFrom(s, sep, 1, <<>>)

----------------------------------------------------------------------------
(* Style.UnmarshalXMLAttr, src/graw.go:113-126 *)

\* lines 118-121: the key/value slice of one pair
PairKV(pair) ==
    LET kv == Split(pair, "=")
    IN  IF Len(kv) < 2 THEN Append(kv, <<>>) ELSE kv

\* as UnmarshalStep, but keeping the entry a key already has
UnmarshalStepFirstWins(m, pair) ==
    LET kv == PairKV(pair)
    IN  IF kv[1] \in DOMAIN m THEN m ELSE MapSet(m, kv[1], kv[2])

\* line 122: a.Attributes[kv[0]] = kv[1]
UnmarshalStep(m, pair) ==
    LET kv == PairKV(pair)
    IN  MapSet(m, kv[1], kv[2])

RECURSIVE UnmarshalLoop(_, _, _)
UnmarshalLoop(pairs, i, m) ==
    IF i > Len(pairs) THEN m
    ELSE UnmarshalLoop(pairs, i + 1, UnmarshalStep(m, pairs[i]))

\* the receiver's Attributes afterwards and the returned error
UnmarshalXMLAttr(value) ==
    [Attributes |-> UnmarshalLoop(Split(value, ";"), 1, EmptyMap),
     err |-> NoErr]

----------------------------------------------------------------------------
(* The codec as a state machine.  A run either builds a Style, marshals    *)
(* it and unmarshals the result, or unmarshals an arbitrary string.        *)

\* caller: style.Attributes[k] = v, before marshalling
SetAttribute(k, v) ==
    /\ phase = "idle"
    /\ recv = EmptyMap
    /\ Cardinality((DOMAIN style) \cup {k}) <= MaxEntries
    /\ style' = MapSet(style, k, v)
    /\ UNCHANGED <<phase, order, attr, merr, src, recv, uerr>>
    /\ UNCHANGED graphVars

\* caller: the receiver already holds a mapping before it is unmarshalled into
SetReceiver ==
    /\ phase = "idle"
    /\ style = EmptyMap
    /\ recv = EmptyMap
    /\ recv' = MapSet(EmptyMap, <<"a">>, <<"a", "a">>)
    /\ UNCHANGED <<phase, style, order, attr, merr, src, uerr>>
    /\ UNCHANGED graphVars

\* style.MarshalXMLAttr(name), range visiting the entries in some order
Marshal ==
    /\ phase = "idle"
    /\ recv = EmptyMap
    /\ \E ord \in IterOrders(style) :
          LET r == MarshalXMLAttr(style, ord)
          IN  /\ order' = ord
              /\ attr' = r.attr
              /\ merr' = r.err
    /\ phase' = "encoded"
    /\ UNCHANGED <<style, src, recv, uerr>>
    /\ UNCHANGED graphVars

\* recv.UnmarshalXMLAttr(attr) on the attribute Marshal returned
UnmarshalMarshalled ==
    /\ phase = "encoded"
    /\ LET r == UnmarshalXMLAttr(attr.Value)
       IN  /\ recv' = r.Attributes
           /\ uerr' = r.err
    /\ src' = attr.Value
    /\ phase' = "roundtrip"
    /\ UNCHANGED <<style, order, attr, merr>>
    /\ UNCHANGED graphVars

\* recv.UnmarshalXMLAttr(attr) on an arbitrary attribute value
UnmarshalInput(value) ==
    /\ phase = "idle"
    /\ style = EmptyMap
    /\ LET r == UnmarshalXMLAttr(value)
       IN  /\ recv' = r.Attributes
           /\ uerr' = r.err
    /\ src' = value
    /\ phase' = "decoded"
    /\ UNCHANGED <<style, order, attr, merr>>
    /\ UNCHANGED graphVars

CodecInit ==
    /\ phase = "idle"
    /\ style = EmptyMap
    /\ order = <<>>
    /\ attr = NoAttr
    /\ merr = NoErr
    /\ src = <<>>
    /\ recv = EmptyMap
    /\ uerr = NoErr

CodecNext ==
    \/ \E k \in Strs(MaxKeyLen), v \in ValueStrs : SetAttribute(k, v)
    \/ SetReceiver
    \/ Marshal
    \/ UnmarshalMarshalled
    \/ \E value \in Strs(MaxInputLen) : UnmarshalInput(value)

----------------------------------------------------------------------------
(* The data model, src/graw.go:16-90.  A heap is [maps, geoms]: the Go     *)
(* maps and the Geometry objects allocated so far, addressed by index;     *)
(* address 0 is nil.                                                       *)

topCellId == "0"
rootCellID == "1"

\* the zero Cell
ZeroCell ==
    [ID |-> "", Value |-> "", Style |-> [Attributes |-> 0], ParentID |-> "",
     Vertex |-> "", Edge |-> "", Source |-> "", Target |-> "", Geometry |-> 0]

\* the zero GraphModel
ZeroGraph ==
    [Dx |-> 0, Dy |-> 0, Grid |-> "", GridSize |-> "", Guides |-> "",
     Tooltips |-> "", Connect |-> "", Arrows |-> "", Fold |-> "", Page |-> "",
     PageScale |-> "", PageWidth |-> "", PageHeight |-> "", Background |-> "",
     Math |-> "", Shadow |-> "", Root |-> <<>>]

EmptyHeap == [maps |-> <<>>, geoms |-> <<>>]

----------------------------------------------------------------------------
(* Constructors.  Each takes the heap hp it allocates in and returns the   *)
(* object it built together with the heap afterwards.                      *)

\* newCell, src/graw.go:194-200
newCell(id, layerId) == [ZeroCell EXCEPT !.ID = id, !.ParentID = layerId]

\* newGeometry, src/graw.go:204-210: the object behind the returned pointer
newGeometry ==
    [X |-> 10, Y |-> 10, Width |-> "", Height |-> "", Relative |-> "",
     As |-> "geometry", Point |-> 0]

\* NewShape, src/graw.go:159-164
NewShape(id, layerId, hp) ==
    LET s == newCell(id, layerId)
        geoms2 == Append(hp.geoms, newGeometry)
    IN  [cell |-> [s EXCEPT !.Vertex = "1", !.Geometry = Len(geoms2)],
         maps |-> hp.maps, geoms |-> geoms2]

\* as NewImage, but leaving imageAspect out of the style
NewImageNoAspect(id, layerId, url, hp) ==
    LET i == NewShape(id, layerId, hp)
        maps2 == Append(i.maps, [shape |-> "image", image |-> url])
    IN  [cell |-> [i.cell EXCEPT !.Style = [Attributes |-> Len(maps2)]],
         maps |-> maps2, geoms |-> i.geoms]

\* NewImage, src/graw.go:170-180
NewImage(id, layerId, url, hp) ==
    LET i == NewShape(id, layerId, hp)
        maps2 == Append(i.maps, [shape |-> "image", imageAspect |-> "0", image |-> url])
    IN  [cell |-> [i.cell EXCEPT !.Style = [Attributes |-> Len(maps2)]],
         maps |-> maps2, geoms |-> i.geoms]

\* as NewImageXY, but assigning x to X and y to Y
NewImageXYBoth(id, layerId, url, x, y, hp) ==
    LET i == NewImage(id, layerId, url, hp)
        geoms2 == [i.geoms EXCEPT ![i.cell.Geometry].X = x]
        geoms3 == [geoms2 EXCEPT ![i.cell.Geometry].Y = y]
    IN  [cell |-> i.cell, maps |-> i.maps, geoms |-> geoms3]

\* NewImageXY, src/graw.go:185-190
NewImageXY(id, layerId, url, x, y, hp) ==
    LET i == NewImage(id, layerId, url, hp)
        geoms2 == [i.geoms EXCEPT ![i.cell.Geometry].X = x]
        geoms3 == [geoms2 EXCEPT ![i.cell.Geometry].X = y]
    IN  [cell |-> i.cell, maps |-> i.maps, geoms |-> geoms3]

\* as NewGraph, but with the second cell left without its parent
NewGraphNoParent(hp) ==
    LET maps2 == Append(hp.maps, [html |-> "1"])
        rootStyle == [Attributes |-> Len(maps2)]
    IN  [g |-> [ZeroGraph EXCEPT
                  !.Dx = 640,
                  !.Dy = 480,
                  !.Root = << [ZeroCell EXCEPT !.ID = topCellId, !.Style = rootStyle],
                              [ZeroCell EXCEPT !.ID = rootCellID,
                                               !.Style = rootStyle] >>],
         maps |-> maps2, geoms |-> hp.geoms]

\* NewGraph, src/graw.go:130-147
NewGraph(hp) ==
    LET maps2 == Append(hp.maps, [html |-> "1"])
        rootStyle == [Attributes |-> Len(maps2)]
    IN  [g |-> [ZeroGraph EXCEPT
                  !.Dx = 640,
                  !.Dy = 480,
                  !.Root = << [ZeroCell EXCEPT !.ID = topCellId, !.Style = rootStyle],
                              [ZeroCell EXCEPT !.ID = rootCellID,
                                               !.ParentID = topCellId,
                                               !.Style = rootStyle] >>],
         maps |-> maps2, geoms |-> hp.geoms]

\* as Add, but skipping a cell whose id the document already holds
AddUnique(gm, c) ==
    LET gm2 == IF \E i \in 1..Len(gm.Root) : gm.Root[i].ID = c.ID
               THEN gm
               ELSE [gm EXCEPT !.Root = Append(gm.Root, c)]
    IN  [g |-> gm2, ret |-> gm2]

\* GraphModel.Add, src/graw.go:151-154: the receiver afterwards and the
\* document the returned pointer designates
Add(gm, c) ==
    LET gm2 == [gm EXCEPT !.Root = Append(gm.Root, c)]
    IN  [g |-> gm2, ret |-> gm2]

----------------------------------------------------------------------------
(* The document as a state machine: a caller holding one GraphModel and    *)
(* the cells it constructed, adding them and writing to their fields.      *)

MaxCells == 1       \* most cells the caller of a document constructs
MaxAdds == 2        \* most Add calls
MaxBuilt == 2       \* most cells constructed when only constructing

Ids == {"1", "n1"}          \* "1" duplicates the id of a seeded cell
Layers == {"1", "zz"}       \* "zz" is the id of no cell
Urls == {"u", "v"}
Coords == {5, 7}
\* the cells a caller of a document constructs: one with a duplicate id and
\* a parent that does not exist, one well-formed
DocArgs == {[id |-> "1", layerId |-> "zz"], [id |-> "n1", layerId |-> "1"]}
NewValues == {"changed"}
NewKeys == {"k"}
NewXs == {99}

Heap == [maps |-> maps, geoms |-> geoms]

\* a constructor's result r becomes the caller's next cell
Store(r, what) ==
    /\ cells' = Append(cells, r.cell)
    /\ maps' = r.maps
    /\ geoms' = r.geoms
    /\ last' = what
    /\ UNCHANGED <<g, ret, nAdd>>
    /\ UNCHANGED codecVars

CallNewShape(id, layerId) ==
    Store(NewShape(id, layerId, Heap),
          [op |-> "NewShape", id |-> id, layerId |-> layerId])

CallNewImage(id, layerId, url) ==
    Store(NewImage(id, layerId, url, Heap),
          [op |-> "NewImage", id |-> id, layerId |-> layerId, url |-> url])

CallNewImageXY(id, layerId, url, x, y) ==
    Store(NewImageXY(id, layerId, url, x, y, Heap),
          [op |-> "NewImageXY", id |-> id, layerId |-> layerId, url |-> url,
           x |-> x, y |-> y])

\* g.Add(c) with c the caller's cell at address p
CallAdd(p) ==
    /\ nAdd < MaxAdds
    /\ LET r == Add(g, cells[p])
       IN  /\ g' = r.g
           /\ ret' = r.ret
    /\ nAdd' = nAdd + 1
    /\ last' = [op |-> "Add", cell |-> p]
    /\ UNCHANGED <<maps, geoms, cells>>
    /\ UNCHANGED codecVars

\* caller: c.Value = v
SetValue(p, v) ==
    /\ cells' = [cells EXCEPT ![p].Value = v]
    /\ last' = [op |-> "SetValue", cell |-> p]
    /\ UNCHANGED <<maps, geoms, g, ret, nAdd>>
    /\ UNCHANGED codecVars

\* caller: c.Style.Attributes[k] = v (a write to a nil map panics)
SetStyleAttr(p, k, v) ==
    /\ cells[p].Style.Attributes # 0
    /\ maps' = [maps EXCEPT ![cells[p].Style.Attributes] = MapSet(@, k, v)]
    /\ last' = [op |-> "SetStyleAttr", cell |-> p]
    /\ UNCHANGED <<geoms, cells, g, ret, nAdd>>
    /\ UNCHANGED codecVars

\* caller: c.Geometry.X = x (a write through a nil pointer panics)
SetGeometryX(p, x) ==
    /\ cells[p].Geometry # 0
    /\ geoms' = [geoms EXCEPT ![cells[p].Geometry].X = x]
    /\ last' = [op |-> "SetGeometryX", cell |-> p]
    /\ UNCHANGED <<maps, cells, g, ret, nAdd>>
    /\ UNCHANGED codecVars

\* caller: g.Root[i].Style.Attributes[k] = v
SetRootStyleAttr(i, k, v) ==
    /\ g.Root[i].Style.Attributes # 0
    /\ maps' = [maps EXCEPT ![g.Root[i].Style.Attributes] = MapSet(@, k, v)]
    /\ last' = [op |-> "SetRootStyleAttr", entry |-> i]
    /\ UNCHANGED <<geoms, cells, g, ret, nAdd>>
    /\ UNCHANGED codecVars

\* caller: g.Root[i].Geometry.X = x
SetRootGeometryX(i, x) ==
    /\ g.Root[i].Geometry # 0
    /\ geoms' = [geoms EXCEPT ![g.Root[i].Geometry].X = x]
    /\ last' = [op |-> "SetRootGeometryX", entry |-> i]
    /\ UNCHANGED <<maps, cells, g, ret, nAdd>>
    /\ UNCHANGED codecVars

\* the caller's document is NewGraph()
GraphInit ==
    LET r == NewGraph(EmptyHeap)
    IN  /\ g = r.g
        /\ maps = r.maps
        /\ geoms = r.geoms
        /\ cells = <<>>
        /\ ret = ZeroGraph
        /\ nAdd = 0
        /\ last = [op |-> "NewGraph"]

GraphNext ==
    \/ /\ Len(cells) < MaxCells
       /\ \E a \in DocArgs : CallNewShape(a.id, a.layerId)
    \/ /\ Len(cells) < MaxCells
       /\ \E a \in DocArgs : CallNewImage(a.id, a.layerId, "u")
    \/ /\ Len(cells) < MaxCells
       /\ \E a \in DocArgs : CallNewImageXY(a.id, a.layerId, "u", 5, 7)
    \/ \E p \in 1..Len(cells) : CallAdd(p)
    \/ \E p \in 1..Len(cells), v \in NewValues : SetValue(p, v)
    \/ \E p \in 1..Len(cells), k \in NewKeys, v \in NewValues : SetStyleAttr(p, k, v)
    \/ \E p \in 1..Len(cells), x \in NewXs : SetGeometryX(p, x)
    \/ \E i \in 1..Len(g.Root), k \in NewKeys, v \in NewValues : SetRootStyleAttr(i, k, v)
    \/ \E i \in 1..Len(g.Root), x \in NewXs : SetRootGeometryX(i, x)

\* only constructing cells, with every combination of arguments
BuildNext ==
    \/ /\ Len(cells) < MaxBuilt
       /\ \E id \in Ids, layerId \in Layers : CallNewShape(id, layerId)
    \/ /\ Len(cells) < MaxBuilt
       /\ \E id \in Ids, layerId \in Layers, url \in Urls : CallNewImage(id, layerId, url)
    \/ /\ Len(cells) < MaxBuilt
       /\ \E id \in Ids, layerId \in Layers, url \in Urls, x \in Coords, y \in Coords :
             CallNewImageXY(id, layerId, url, x, y)

----------------------------------------------------------------------------
(* Specifications *)

\* an idle codec and the document NewGraph() returned
Init == CodecInit /\ GraphInit

\* the Style codec on its own; the document stays as constructed
SpecCodec == Init /\ [][CodecNext]_vars

\* the cell constructors on their own
SpecBuild == Init /\ [][BuildNext]_vars

\* the document and its cells; the codec stays idle
Spec == Init /\ [][GraphNext]_vars

----------------------------------------------------------------------------
(* Properties of the Style codec, stated on the strings themselves:        *)
(* fragments are cut at the positions of ';', keys and values at the       *)
(* positions of '='.                                                       *)

\* position of the first ch in s, 0 when there is none
FirstPos(s, ch) ==
    IF \E i \in 1..Len(s) : s[i] = ch
    THEN CHOOSE i \in 1..Len(s) : s[i] = ch /\ \A j \in 1..(i - 1) : s[j] # ch
    ELSE 0

\* the text before the first ch (all of s when there is none)
Before(s, ch) ==
    IF FirstPos(s, ch) = 0 THEN s ELSE SubSeq(s, 1, FirstPos(s, ch) - 1)

\* the text after the first ch (empty when there is none)
After(s, ch) ==
    IF FirstPos(s, ch) = 0 THEN <<>> ELSE SubSeq(s, FirstPos(s, ch) + 1, Len(s))

\* position of the n-th ';' of s; 0 for n = 0, Len(s) + 1 past the last
SemiPos(s, n) ==
    LET P == {i \in 1..Len(s) : s[i] = ";"}
    IN  IF n = 0 THEN 0
        ELSE IF n > Cardinality(P) THEN Len(s) + 1
        ELSE CHOOSE i \in P : Cardinality({q \in P : q < i}) = n - 1

NFragments(s) == Cardinality({i \in 1..Len(s) : s[i] = ";"}) + 1

\* the j-th ';'-separated fragment of s
Fragment(s, j) == SubSeq(s, SemiPos(s, j - 1) + 1, SemiPos(s, j) - 1)

FragmentKey(s, j) == Before(Fragment(s, j), "=")

\* the fragment j is the last one of s with its key
LastWithKey(s, j) ==
    \A j2 \in (j + 1)..NFragments(s) : FragmentKey(s, j2) # FragmentKey(s, j)

\* neither ';' nor '=' occurs in s
Plain(s) == \A i \in 1..Len(s) : s[i] \notin {";", "="}

PlainMap(m) == \A k \in DOMAIN m : Plain(k) /\ Plain(m[k])

\* the fragment MarshalXMLAttr is to write for the entry k of m
EntryText(m, k) ==
    IF m[k] = <<>> THEN k \o <<";">> ELSE k \o <<"=">> \o m[k] \o <<";">>

\* total length of the fragments of the first n entries in the order ord
RECURSIVE Offset(_, _, _)
Offset(m, ord, n) ==
    IF n = 0 THEN 0 ELSE Offset(m, ord, n - 1) + Len(EntryText(m, ord[n]))

\* C1: decoding what MarshalXMLAttr produced for a mapping whose keys and
\* values contain neither ';' nor '=' yields that mapping again, the empty
\* mapping included.
CE_C1_RoundTrip ==
    (phase = "roundtrip" /\ PlainMap(style)) => recv = style

\* C8: MarshalXMLAttr returns no error and an attribute named "style" whose
\* value is, entry by entry in the order of iteration, "key;" for an empty
\* value and "key=value;" otherwise, every entry exactly once and nothing
\* else; the empty mapping gives the empty string.
Th_C8_Encode ==
    phase \in {"encoded", "roundtrip"} =>
        /\ merr = NoErr
        /\ attr.Name = "style"
        /\ Len(order) = Cardinality(DOMAIN style)
        /\ {order[i] : i \in 1..Len(order)} = DOMAIN style
        /\ Len(attr.Value) = Offset(style, order, Len(order))
        /\ \A i \in 1..Len(order) :
              SubSeq(attr.Value, Offset(style, order, i - 1) + 1, Offset(style, order, i))
                  = EntryText(style, order[i])
        /\ (DOMAIN style = {} => attr.Value = <<>>)

\* two entries, one with an empty value, written in some order
W_C8_Encode ==
    /\ phase = "encoded"
    /\ Len(order) = 2
    /\ style[order[1]] # <<>>
    /\ style[order[2]] = <<>>
    /\ order[2] # <<>>

\* C9: each fragment is split on its first '=' only: the key is the text
\* before it and the value all of the text after it; without '=' the value
\* is empty.
CE_C9_SplitFirstEq ==
    phase = "decoded" =>
        \A j \in 1..NFragments(src) :
            LastWithKey(src, j) =>
                /\ FragmentKey(src, j) \in DOMAIN recv
                /\ recv[FragmentKey(src, j)] = After(Fragment(src, j), "=")

\* C10: UnmarshalXMLAttr returns no error for every string and leaves in the
\* receiver exactly one entry per distinct fragment key, holding what the
\* last fragment with that key gave (the text between its first and second
\* '='); an empty fragment gives the empty key the empty value, so a
\* trailing ';' and the empty input leave that entry.
Th_C10_DecodeTotal ==
    phase \in {"decoded", "roundtrip"} =>
        /\ uerr = NoErr
        /\ DOMAIN recv = {FragmentKey(src, j) : j \in 1..NFragments(src)}
        /\ \A j \in 1..NFragments(src) :
              LastWithKey(src, j) =>
                  recv[FragmentKey(src, j)] = Before(After(Fragment(src, j), "="), "=")
        /\ \A j \in 1..NFragments(src) :
              (Fragment(src, j) = <<>> /\ LastWithKey(src, j)) => recv[<<>>] = <<>>
        /\ (src = <<>> \/ src[Len(src)] = ";") =>
              (<<>> \in DOMAIN recv /\ recv[<<>>] = <<>>)

\* "a=a;a;" decoded into a receiver that held a mapping: the second fragment
\* overwrites the first, the trailing ';' leaves the empty key
W_C10_DecodeTotal ==
    /\ phase = "decoded"
    /\ src = <<"a", "=", "a", ";", "a", ";">>
    /\ DOMAIN recv = {<<"a">>, <<>>}
    /\ recv[<<"a">>] = <<>>
    /\ recv[<<>>] = <<>>

----------------------------------------------------------------------------
(* Properties of the document and of the constructors.  A stored cell is   *)
(* looked at together with what its addresses designate.                   *)

\* the mapping behind a Style (nil is told apart from an empty map)
StyleOf(c) ==
    IF c.Style.Attributes = 0 THEN [nil |-> TRUE]
    ELSE [nil |-> FALSE, val |-> maps[c.Style.Attributes]]

\* the Geometry object behind a cell's pointer
GeometryOf(c) ==
    IF c.Geometry = 0 THEN [nil |-> TRUE]
    ELSE [nil |-> FALSE, val |-> geoms[c.Geometry]]

\* the i-th cell of the document with its style and geometry
Stored(i) ==
    [cell |-> g.Root[i], style |-> StyleOf(g.Root[i]), geometry |-> GeometryOf(g.Root[i])]

\* the cell the last constructor call returned
Built == cells[Len(cells)]

DefaultGeometry ==
    [X |-> 10, Y |-> 10, Width |-> "", Height |-> "", Relative |-> "",
     As |-> "geometry", Point |-> 0]

\* C2: once a cell is added, no write through the caller's cell (to its
\* Value, to an entry of its Style mapping, to a field of its Geometry)
\* changes any cell stored in the document.
CE_C2_AddSnapshots ==
    [][last'.op \in {"SetValue", "SetStyleAttr", "SetGeometryX"} =>
          /\ Len(g'.Root) = Len(g.Root)
          /\ \A i \in 1..Len(g.Root) : Stored(i)' = Stored(i)]_vars

\* C3: NewGraph() has dx=640, dy=480 and exactly two cells: id "0" without
\* parent and id "1" with parent "0", the style of each exactly {html: "1"}.
Th_C3_NewGraph ==
    last.op = "NewGraph" =>
        /\ g.Dx = 640
        /\ g.Dy = 480
        /\ Len(g.Root) = 2
        /\ g.Root[1].ID = "0"
        /\ g.Root[1].ParentID = ""
        /\ StyleOf(g.Root[1]) = [nil |-> FALSE, val |-> [html |-> "1"]]
        /\ g.Root[2].ID = "1"
        /\ g.Root[2].ParentID = g.Root[1].ID
        /\ StyleOf(g.Root[2]) = [nil |-> FALSE, val |-> [html |-> "1"]]

W_C3_NewGraph ==
    /\ last.op = "NewGraph"
    /\ nAdd = 0
    /\ Len(g.Root) = 2

\* C4: every Add lengthens the cell sequence by one, puts a cell equal to
\* its argument at the end, leaves the earlier entries, dx, dy and every
\* other field alone and returns the receiving document; so the sequence
\* always starts with the seeded cells "0" and "1" and holds 2 cells plus
\* one per Add.
Th_C4_AppendOnly ==
    /\ [](/\ Len(g.Root) = 2 + nAdd
          /\ g.Root[1].ID = "0" /\ g.Root[1].ParentID = ""
          /\ g.Root[2].ID = "1" /\ g.Root[2].ParentID = "0"
          /\ g.Dx = 640 /\ g.Dy = 480)
    /\ [][nAdd' # nAdd =>
            /\ Len(g'.Root) = Len(g.Root) + 1
            /\ g'.Root[Len(g'.Root)] = cells[last'.cell]
            /\ SubSeq(g'.Root, 1, Len(g.Root)) = g.Root
            /\ [g' EXCEPT !.Root = <<>>] = [g EXCEPT !.Root = <<>>]
            /\ \A i \in 1..Len(g.Root) : Stored(i)' = Stored(i)
            /\ ret' = g']_vars

\* a cell with the id of a seeded cell and a parent that does not exist,
\* added twice
W_C4_AppendOnly ==
    /\ last.op = "Add"
    /\ nAdd = 2
    /\ g.Root[3].ID = "1" /\ g.Root[3].ParentID = "zz"
    /\ g.Root[4] = g.Root[3]

\* C5: no two cells of the document share a Style mapping or a Geometry: a
\* write to an entry of one stored cell's style, or to a field of its
\* geometry, changes the style and geometry of no other stored cell.
CE_C5_ExclusiveOwnership ==
    [][last'.op \in {"SetRootStyleAttr", "SetRootGeometryX"} =>
          \A j \in 1..Len(g.Root) :
              j # last'.entry => Stored(j)' = Stored(j)]_vars

\* C6: NewImage(id, parentId, url) has the style {shape: "image",
\* imageAspect: "0", image: url} and nothing else in it, and is otherwise
\* NewShape(id, parentId): that id and parent, vertex "1", no edge, no
\* value, a geometry of its own with x=10, y=10, as "geometry", no point.
Th_C6_NewImage ==
    last.op = "NewImage" =>
        /\ StyleOf(Built) =
              [nil |-> FALSE,
               val |-> [shape |-> "image", imageAspect |-> "0", image |-> last.url]]
        /\ Built.ID = last.id
        /\ Built.ParentID = last.layerId
        /\ Built.Vertex = "1"
        /\ Built.Edge = ""
        /\ Built.Value = ""
        /\ Built.Source = "" /\ Built.Target = ""
        /\ GeometryOf(Built) = [nil |-> FALSE, val |-> DefaultGeometry]
        /\ \A p \in 1..(Len(cells) - 1) :
              /\ cells[p].Geometry # Built.Geometry
              /\ cells[p].Style.Attributes # Built.Style.Attributes

W_C6_NewImage ==
    /\ last.op = "NewImage"
    /\ last.url = "v"
    /\ Len(cells) = 2
    /\ StyleOf(Built).val.image = "v"

\* C7: NewImageXY(id, parentId, url, x, y) has geometry X equal to y and Y
\* equal to 10 whatever x is; id, parent, vertex flag and style are those of
\* NewImage(id, parentId, url).
Th_C7_NewImageXY ==
    last.op = "NewImageXY" =>
        /\ GeometryOf(Built).val.X = last.y
        /\ GeometryOf(Built).val.Y = 10
        /\ GeometryOf(Built).val = [DefaultGeometry EXCEPT !.X = last.y]
        /\ Built.ID = last.id
        /\ Built.ParentID = last.layerId
        /\ Built.Vertex = "1"
        /\ StyleOf(Built) =
              [nil |-> FALSE,
               val |-> [shape |-> "image", imageAspect |-> "0", image |-> last.url]]

\* NewImageXY(_, _, _, 5, 7)
W_C7_NewImageXY ==
    /\ last.op = "NewImageXY"
    /\ last.x = 5 /\ last.y = 7
    /\ GeometryOf(Built).val.X = 7
    /\ GeometryOf(Built).val.Y = 10

====
